---- MODULE Spec2Model ----
(***************************************************************************)
(* State-machine model of cpa_scraper.py: the harvest loop of main, the    *)
(* pagination controller handle_pagination, the update detector            *)
(* verify_table_update, the row extractor extract_table_data and the       *)
(* persistence sink save_to_csv.                                           *)
(*                                                                         *)
(* The browser page is the environment: every DOM read (the table, its     *)
(* first row, the Next button) returns a value chosen from a small set at  *)
(* the moment of the read, because the page re-renders asynchronously.     *)
(* The clock counts the seconds the program is known to have slept.        *)
(***************************************************************************)
EXTENDS Integers, Sequences, FiniteSets, TLC

VARIABLES
    max_pages,                  \* args.max_pages
    save_frequency,             \* args.save_frequency
    pc,                         \* position of main / handle_pagination
    page_number,                \* main: page_number
    all_data,                   \* main: all_data
    page_data,                  \* main: page_data
    success,                    \* main: success (of handle_pagination)
    new_data,                   \* main: new_data (Optional list)
    first_member_current_page,  \* handle_pagination local (Optional text)
    browser,                    \* "unset" | "open" | "closed"
    closes,                     \* number of browser.close() calls
    clock,                      \* seconds slept so far (datetime.now())
    files,                      \* output directory: filepath -> CSV content
    saves,                      \* log of save_to_csv calls
    committed,                  \* log: the page_data of each extend, in order
    reason,                     \* log: why the loop was left
    exc,                        \* log: where the exception main caught came from
    call,                       \* log of the current handle_pagination call
    clicks,                     \* number of clicks of the Next button
    views,                      \* views (1 + clicks) the extractor was run on
    nominal,                    \* the page behaved: see NominalRun below
    dup_warning,                \* log: the duplicate warning of the last extend
    arg,                        \* argument of a function applied on its own
    ret                         \* its result (Optional)

vars == <<max_pages, save_frequency, pc, page_number, all_data, page_data,
          success, new_data, first_member_current_page, browser, closes, clock,
          files, saves, committed, reason, exc, call, clicks, views, nominal,
          dup_warning, arg, ret>>

-----------------------------------------------------------------------------
(* Bounds of the model *)

MaxPagesBound == 2
MaxSaveFreq == 2
MaxRows == 3        \* rows of a table given to extract_table_data on its own
MaxNameLen == 3     \* characters of a raw member name cleaned on its own

-----------------------------------------------------------------------------
(* Python values *)

\* Optional values: None is the empty set, a present value v is {v}.
None == {}
Some(v) == {v}
The(opt) == CHOOSE v \in opt : TRUE

\* Text is a sequence of one-character strings.
Whitespace == {" "}

\* Mutant of Strip: one whitespace character is removed at each end.
StripOnce(s) ==
    LET l == IF s # <<>> /\ Head(s) \in Whitespace THEN Tail(s) ELSE s
    IN  IF l # <<>> /\ l[Len(l)] \in Whitespace
           THEN SubSeq(l, 1, Len(l) - 1)
           ELSE l

RECURSIVE LStrip(_)
LStrip(s) ==
    IF s # <<>> /\ Head(s) \in Whitespace THEN LStrip(Tail(s)) ELSE s

RECURSIVE RStrip(_)
RStrip(s) ==
    IF s # <<>> /\ s[Len(s)] \in Whitespace
        THEN RStrip(SubSeq(s, 1, Len(s) - 1))
        ELSE s

\* str.strip()
Strip(s) == RStrip(LStrip(s))

\* Python truthiness of an Optional text: None and "" are falsy.
Truthy(opt) == opt # None /\ The(opt) # <<>>

-----------------------------------------------------------------------------
(* The page: what a DOM read can return *)

CellX == <<"x">>
CellY == <<" ", "y">>
CellZ == <<"z", " ">>

\* A tbody row: its th (Optional) and its td cells.
RowA == [th |-> Some(<<" ", "a">>), tds |-> <<CellX, CellY, CellZ>>]
RowB == [th |-> Some(<<"b">>), tds |-> <<CellY, CellX, CellZ, CellX>>]
RowShort == [th |-> Some(<<"b">>), tds |-> <<CellX, CellY>>]
RowNoTh == [th |-> None, tds |-> <<CellX, CellY, CellZ>>]
RowBlank == [th |-> Some(<<" ">>), tds |-> <<CellZ, CellZ, CellX>>]

\* The row lists "table.slds-table tbody tr" can match.
Tables ==
    { <<>>,
      <<RowA, RowB>>,
      <<RowB, RowShort, RowA>>,
      <<RowNoTh, RowA>>,
      <<RowBlank, RowB>>,
      <<RowShort>> }

\* A read of the table: None when "table.slds-table" is not in the page.
Doms == {None} \cup {Some(t) : t \in Tables}

\* page.query_selector("table.slds-table tbody tr"): the first row, if any.
FirstRow(dom) ==
    IF dom = None \/ The(dom) = <<>> THEN None ELSE Some(The(dom)[1])

\* The Next button: its class attribute (Optional) and its native state.
ClassNeutral == "slds-button slds-button_neutral"
ClassDisabledToken == "slds-button slds-button_neutral disabled"
ClassDisabledInfix == "slds-button slds-button_disabled"

\* "disabled" in <class string>: Python substring test.
ContainsDisabled(cls) == cls \in {ClassDisabledToken, ClassDisabledInfix}

\* page.query_selector("button:has-text('Next')")
Buttons ==
    {None} \cup
    { Some([class |-> c, disabled |-> d]) :
        c \in {Some(ClassNeutral), Some(ClassDisabledToken),
               Some(ClassDisabledInfix), None},
        d \in BOOLEAN }

-----------------------------------------------------------------------------
(* extract_table_data *)

Record(member_name, cols) ==
    [k \in {"Member Name", "Designations", "Employer", "Employer City"} |->
        CASE k = "Member Name" -> member_name
          [] k = "Designations" -> Strip(cols[1])
          [] k = "Employer" -> Strip(cols[2])
          [] k = "Employer City" -> Strip(cols[3])]

\* Mutant of ExtractRow: len(cols) > 3.
ExtractRowStrict(row) ==
    IF row.th = None
        THEN <<>>
        ELSE IF Len(row.tds) > 3
                 THEN <<Record(Strip(The(row.th)), row.tds)>>
                 ELSE <<>>

\* One iteration of "for row in rows": the records the row contributes.
ExtractRow(row) ==
    IF row.th = None
        THEN <<>>          \* None.inner_text() raises; caught, row skipped
        ELSE IF Len(row.tds) >= 3
                 THEN <<Record(Strip(The(row.th)), row.tds)>>
                 ELSE <<>>

RECURSIVE ExtractRows(_)
ExtractRows(rows) ==
    IF rows = <<>> THEN <<>>
    ELSE ExtractRow(Head(rows)) \o ExtractRows(Tail(rows))

\* extract_table_data(page) when the reads of the page return dom.
ExtractTableData(dom) ==
    IF dom = None THEN <<>>     \* TimeoutError: return []
    ELSE ExtractRows(The(dom))

-----------------------------------------------------------------------------
(* verify_table_update *)

\* The first member name verify_table_update reads (None: no row, or no th).
ReadFirstMember(dom) ==
    IF FirstRow(dom) = None \/ The(FirstRow(dom)).th = None
        THEN None
        ELSE Some(Strip(The(The(FirstRow(dom)).th)))

\* Mutant of VerifyTableUpdate: no test for a missing first row, whose name
\* is taken to be None and so differs from the previous one.
VerifyTableUpdateAbsentChanged(dom, previous_first_member, raises) ==
    IF raises THEN FALSE
    ELSE IF FirstRow(dom) = None THEN TRUE
    ELSE IF The(FirstRow(dom)).th = None THEN FALSE
    ELSE Strip(The(The(FirstRow(dom)).th)) # previous_first_member

\* Mutant of VerifyTableUpdate: the text read is compared without .strip().
VerifyTableUpdateRaw(dom, previous_first_member, raises) ==
    IF raises THEN FALSE
    ELSE IF FirstRow(dom) = None THEN FALSE
    ELSE IF The(FirstRow(dom)).th = None THEN FALSE
    ELSE The(The(FirstRow(dom)).th) # previous_first_member

\* verify_table_update(page, previous_first_member); raises: an exception
\* inside the try (the wait or a read fails), which the function catches.
VerifyTableUpdate(dom, previous_first_member, raises) ==
    IF raises THEN FALSE
    ELSE IF FirstRow(dom) = None THEN FALSE
    ELSE IF The(FirstRow(dom)).th = None THEN FALSE
    ELSE Strip(The(The(FirstRow(dom)).th)) # previous_first_member

-----------------------------------------------------------------------------
(* save_to_csv *)

Header == <<"Member Name", "Designations", "Employer", "Employer City">>

CsvLine(record) == [i \in 1..Len(Header) |-> record[Header[i]]]

\* pd.DataFrame(data).to_csv(index=False): a header line, then one line per
\* record in order; an empty list has no columns, hence no header.
ToCsv(data) ==
    IF data = <<>> THEN <<>>
    ELSE <<Header>> \o [i \in 1..Len(data) |-> CsvLine(data[i])]

\* os.path.join(output_dir, "cpa_members_<%Y%m%d_%H%M%S>.csv")
Filepath(now) == <<"output_dir", "cpa_members_", now, ".csv">>

WriteFile(fs, path, content) ==
    [p \in DOMAIN fs \cup {path} |-> IF p = path THEN content ELSE fs[p]]

\* Mutant of SaveToCsv: the file is opened in append mode.
SaveToCsvAppendMode(data, ok, site) ==
    /\ saves' = Append(saves, [data |-> data, filepath |-> Filepath(clock),
                               ok |-> ok, site |-> site])
    /\ files' = IF ok
                   THEN WriteFile(files, Filepath(clock),
                            (IF Filepath(clock) \in DOMAIN files
                                THEN files[Filepath(clock)] ELSE <<>>)
                            \o ToCsv(data))
                   ELSE files

\* save_to_csv(data, output_dir); ok = FALSE: makedirs or to_csv raises.
\* site is the call site in main: "checkpoint", "final" or "handler".
SaveToCsv(data, ok, site) ==
    /\ saves' = Append(saves, [data |-> data, filepath |-> Filepath(clock),
                               ok |-> ok, site |-> site])
    /\ files' = IF ok THEN WriteFile(files, Filepath(clock), ToCsv(data))
                ELSE files

-----------------------------------------------------------------------------
(* Waits, in seconds *)

SetupSleep == 5          \* time.sleep(5)
TableTimeout == 60       \* wait_for_selector(..., timeout=60000)
VerifyWait == 2          \* page.wait_for_timeout(2000)
ClickWait == 3           \* page.wait_for_timeout(3000)
RetryWait == 5           \* page.wait_for_timeout(5000)
PageSleep == 2           \* time.sleep(2)

\* Seconds extract_table_data blocks on a read dom.
ExtractTime(dom) == IF dom = None THEN TableTimeout ELSE 0

-----------------------------------------------------------------------------
(* Initial state: main up to "with sync_playwright() as p" *)

NoCall == [button |-> None, clicked |-> FALSE, reads |-> <<>>,
           extracted |-> None, outcome |-> "none"]

Init ==
    /\ max_pages \in 0..MaxPagesBound
    /\ save_frequency \in 0..MaxSaveFreq
    /\ pc = "start"
    /\ page_number = 1
    /\ all_data = <<>>
    /\ page_data = <<>>
    /\ success = FALSE
    /\ new_data = None
    /\ first_member_current_page = None
    /\ browser = "unset"
    /\ closes = 0
    /\ clock = 0
    /\ files = <<>>
    /\ saves = <<>>
    /\ committed = <<>>
    /\ reason = "none"
    /\ exc = "none"
    /\ call = NoCall
    /\ clicks = 0
    /\ views = {}
    /\ nominal = TRUE
    /\ dup_warning = FALSE
    /\ arg = None
    /\ ret = None

-----------------------------------------------------------------------------
(* main: session setup *)

\* Launch, new_context, new_page, goto, the waits for the page and sleep(5).
\* fault "launch": chromium.launch raises (browser is never bound);
\* fault "load": goto or a wait raises after the browser was launched.
Setup ==
    /\ pc = "start"
    /\ \E fault \in {"none", "launch", "load"} :
        /\ browser' = IF fault = "launch" THEN "unset" ELSE "open"
        /\ IF fault = "none"
              THEN /\ pc' = "loop"
                   /\ clock' = clock + SetupSleep
                   /\ UNCHANGED <<exc, nominal>>
              ELSE /\ pc' = "handler"
                   /\ exc' = "setup"
                   /\ nominal' = FALSE
                   /\ UNCHANGED clock
    /\ UNCHANGED <<arg, ret, dup_warning, max_pages, save_frequency, page_number, all_data, page_data,
                   success, new_data, first_member_current_page, closes, files,
                   saves, committed, reason, call, clicks, views>>

-----------------------------------------------------------------------------
(* main: the harvest loop *)

\* Mutant of LoopTest: while page_number < max_pages.
LoopTestStrict ==
    /\ pc = "loop"
    /\ IF page_number < max_pages
          THEN pc' = "extract" /\ UNCHANGED reason
          ELSE pc' = "final" /\ reason' = "page-cap"
    /\ UNCHANGED <<arg, ret, dup_warning, max_pages, save_frequency, page_number, all_data, page_data,
                   success, new_data, first_member_current_page, browser,
                   closes, clock, files, saves, committed, exc, call, clicks,
                   views, nominal>>

\* while page_number <= max_pages
LoopTest ==
    /\ pc = "loop"
    /\ IF page_number <= max_pages
          THEN pc' = "extract" /\ UNCHANGED reason
          ELSE pc' = "final" /\ reason' = "page-cap"
    /\ UNCHANGED <<arg, ret, dup_warning, max_pages, save_frequency, page_number, all_data, page_data,
                   success, new_data, first_member_current_page, browser,
                   closes, clock, files, saves, committed, exc, call, clicks,
                   views, nominal>>

\* Mutant of Extend: all_data = page_data instead of all_data.extend(page_data).
ExtendReplace(list, items) == items

\* all_data.extend(page_data)
Extend(list, items) == list \o items

\* any(record in all_data for record in page_data)
DuplicateDetected(all, page) ==
    \E i \in DOMAIN page : \E j \in DOMAIN all : page[i] = all[j]

\* Mutant of CommitPage: a detected duplicate ends the loop, nothing is added.
CommitPageStopOnDuplicate(data) ==
    IF DuplicateDetected(all_data, data)
       THEN /\ dup_warning' = TRUE
            /\ pc' = "final"
            /\ reason' = "duplicate"
            /\ UNCHANGED <<all_data, committed, nominal>>
       ELSE /\ dup_warning' = FALSE
            /\ all_data' = Extend(all_data, data)
            /\ committed' = Append(committed, data)
            /\ pc' = "checkpoint"
            /\ UNCHANGED <<reason, nominal>>

\* The duplicate check, which only logs a warning, and the extend.
CommitPage(data) ==
    /\ dup_warning' = DuplicateDetected(all_data, data)
    /\ all_data' = Extend(all_data, data)
    /\ committed' = Append(committed, data)
    /\ pc' = "checkpoint"
    /\ UNCHANGED <<reason, nominal>>

\* page_data = extract_table_data(page); break on no data; extend all_data.
\* raises: extract_table_data lets an exception other than TimeoutError out.
ExtractPage ==
    /\ pc = "extract"
    /\ \E dom \in Doms, raises \in BOOLEAN :
        IF raises
           THEN /\ pc' = "handler"
                /\ exc' = "extract"
                /\ nominal' = FALSE
                /\ UNCHANGED <<page_data, all_data, committed, reason, clock,
                               views, dup_warning>>
           ELSE /\ page_data' = ExtractTableData(dom)
                /\ clock' = clock + ExtractTime(dom)
                /\ views' = views \cup {1 + clicks}
                /\ UNCHANGED exc
                /\ IF page_data' = <<>>
                      THEN /\ pc' = "final"
                           /\ reason' = "no-data"
                           /\ nominal' = FALSE
                           /\ UNCHANGED <<all_data, committed, dup_warning>>
                      ELSE CommitPage(page_data')
    /\ UNCHANGED <<arg, ret, max_pages, save_frequency, page_number, success, new_data,
                   first_member_current_page, browser, closes, files, saves,
                   call, clicks>>

\* Mutant of Checkpoint: the boundary test is off by one page.
CheckpointOffByOne ==
    /\ pc = "checkpoint"
    /\ IF save_frequency = 0
          THEN \* ZeroDivisionError
               /\ pc' = "handler"
               /\ exc' = "modulo"
               /\ nominal' = FALSE
               /\ UNCHANGED <<files, saves>>
          ELSE IF (page_number + 1) % save_frequency = 0
                  THEN \E ok \in BOOLEAN :
                         /\ SaveToCsv(all_data, ok, "checkpoint")
                         /\ IF ok
                               THEN pc' = "paginate" /\ UNCHANGED <<exc, nominal>>
                               ELSE /\ pc' = "handler"
                                    /\ exc' = "checkpoint-save"
                                    /\ nominal' = FALSE
                  ELSE /\ pc' = "paginate"
                       /\ UNCHANGED <<files, saves, exc, nominal>>
    /\ UNCHANGED <<arg, ret, dup_warning, max_pages, save_frequency, page_number, all_data, page_data,
                   success, new_data, first_member_current_page, browser,
                   closes, clock, committed, reason, call, clicks, views>>

\* if page_number % save_frequency == 0: save_to_csv(all_data, output_dir)
Checkpoint ==
    /\ pc = "checkpoint"
    /\ IF save_frequency = 0
          THEN \* ZeroDivisionError
               /\ pc' = "handler"
               /\ exc' = "modulo"
               /\ nominal' = FALSE
               /\ UNCHANGED <<files, saves>>
          ELSE IF page_number % save_frequency = 0
                  THEN \E ok \in BOOLEAN :
                         /\ SaveToCsv(all_data, ok, "checkpoint")
                         /\ IF ok
                               THEN pc' = "paginate" /\ UNCHANGED <<exc, nominal>>
                               ELSE /\ pc' = "handler"
                                    /\ exc' = "checkpoint-save"
                                    /\ nominal' = FALSE
                  ELSE /\ pc' = "paginate"
                       /\ UNCHANGED <<files, saves, exc, nominal>>
    /\ UNCHANGED <<arg, ret, dup_warning, max_pages, save_frequency, page_number, all_data, page_data,
                   success, new_data, first_member_current_page, browser,
                   closes, clock, committed, reason, call, clicks, views>>

\* Mutant of Advance: page_number is not incremented.
AdvanceNoIncrement ==
    /\ pc = "returned"
    /\ IF ~success
          THEN /\ pc' = "final"
               /\ reason' = "pagination"
               /\ UNCHANGED <<page_number, clock>>
          ELSE /\ page_number' = page_number
               /\ clock' = clock + PageSleep
               /\ pc' = "loop"
               /\ UNCHANGED reason
    /\ UNCHANGED <<arg, ret, dup_warning, max_pages, save_frequency, all_data, page_data, success,
                   new_data, first_member_current_page, browser, closes, files,
                   saves, committed, exc, call, clicks, views, nominal>>

\* success, new_data = ...; if not success: break; page_number += 1; sleep(2)
Advance ==
    /\ pc = "returned"
    /\ IF ~success
          THEN /\ pc' = "final"
               /\ reason' = "pagination"
               /\ UNCHANGED <<page_number, clock>>
          ELSE /\ page_number' = page_number + 1
               /\ clock' = clock + PageSleep
               /\ pc' = "loop"
               /\ UNCHANGED reason
    /\ UNCHANGED <<arg, ret, dup_warning, max_pages, save_frequency, all_data, page_data, success,
                   new_data, first_member_current_page, browser, closes, files,
                   saves, committed, exc, call, clicks, views, nominal>>

-----------------------------------------------------------------------------
(* handle_pagination *)

\* A return of handle_pagination: (ok, data), with the message it logs.
PagResult(ok, data, outcome, c) ==
    /\ success' = ok
    /\ new_data' = data
    /\ call' = [c EXCEPT !.outcome = outcome]
    /\ pc' = "returned"

\* Mutant of OnPaginationError: no except clause, the exception reaches main.
OnPaginationErrorPropagates(c) ==
    /\ call' = [c EXCEPT !.outcome = "error"]
    /\ pc' = "handler"
    /\ UNCHANGED <<success, new_data>>

\* except Exception as e: ...; return False, None
OnPaginationError(c) == PagResult(FALSE, None, "error", c)

\* Mutant of IsDisabled: only the class is tested, is_disabled() is not called.
IsDisabledClassOnly(button) == ContainsDisabled(The(button.class))

\* if "disabled" in next_button.get_attribute("class") or next_button.is_disabled()
IsDisabled(button) ==
    ContainsDisabled(The(button.class)) \/ button.disabled

\* From the entry of handle_pagination to the end of wait_for_timeout(3000).
\* fault: the step of the try block that raises ("none": no step does).
PagLocate ==
    /\ pc = "paginate"
    /\ first_member_current_page' =
          IF page_data # <<>> THEN Some(page_data[1]["Member Name"]) ELSE None
    /\ \E btn \in Buttons, fault \in {"none", "query", "state", "click", "wait"} :
        LET c == [NoCall EXCEPT !.button = IF fault = "query" THEN None ELSE btn]
        IN  IF fault = "query"
               THEN /\ OnPaginationError(c)
                    /\ UNCHANGED <<clicks, clock>>
            ELSE IF btn = None
               THEN /\ PagResult(FALSE, None, "not-found", c)
                    /\ UNCHANGED <<clicks, clock>>
            ELSE IF The(btn).class = None \/ fault = "state"
               THEN \* "disabled" in None is a TypeError; or a read raises
                    /\ OnPaginationError(c)
                    /\ UNCHANGED <<clicks, clock>>
            ELSE IF IsDisabled(The(btn))
               THEN /\ PagResult(FALSE, None, "disabled", c)
                    /\ UNCHANGED <<clicks, clock>>
            ELSE IF fault = "click"
               THEN /\ OnPaginationError(c)
                    /\ UNCHANGED <<clicks, clock>>
            ELSE /\ clicks' = clicks + 1
                 /\ IF fault = "wait"
                       THEN /\ OnPaginationError([c EXCEPT !.clicked = TRUE])
                            /\ UNCHANGED clock
                       ELSE /\ clock' = clock + ClickWait
                            /\ call' = [c EXCEPT !.clicked = TRUE]
                            /\ pc' = IF Truthy(first_member_current_page')
                                        THEN "verify1" ELSE "extractnext"
                            /\ UNCHANGED <<success, new_data>>
    /\ nominal' = (nominal /\ pc' = "verify1")
    /\ UNCHANGED <<arg, ret, dup_warning, max_pages, save_frequency, page_number, all_data, page_data,
                   browser, closes, files, saves, committed, reason, exc, views>>

\* What one call of verify_table_update read and answered.
VerifyRead(dom, previous, raises) ==
    [first_member |-> IF raises THEN None ELSE ReadFirstMember(dom),
     row |-> IF raises THEN "unread"
             ELSE IF FirstRow(dom) = None THEN "absent" ELSE "present",
     previous |-> previous,
     changed |-> VerifyTableUpdate(dom, previous, raises)]

\* Mutant of PagVerify1: a first verification that fails is final, no retry.
PagVerify1NoRetry ==
    /\ pc = "verify1"
    /\ \E dom \in Doms, raises \in BOOLEAN :
        LET rd == VerifyRead(dom, The(first_member_current_page), raises)
            c == [call EXCEPT !.reads = Append(@, rd)]
        IN  IF rd.changed
               THEN /\ call' = c
                    /\ pc' = "extractnext"
                    /\ UNCHANGED <<success, new_data, nominal>>
               ELSE /\ PagResult(FALSE, None, "verification-failed", c)
                    /\ nominal' = FALSE
    /\ clock' = clock + VerifyWait
    /\ UNCHANGED <<arg, ret, dup_warning, max_pages, save_frequency,
                   page_number, all_data, page_data,
                   first_member_current_page, browser, closes, files, saves,
                   committed, reason, exc, clicks, views>>

\* The first verify_table_update and, when it fails, wait_for_timeout(5000).
\* fault "verify": an exception inside verify_table_update (caught there);
\* fault "wait": wait_for_timeout(5000) raises.
PagVerify1 ==
    /\ pc = "verify1"
    /\ \E dom \in Doms, fault \in {"none", "verify", "wait"} :
        LET rd == VerifyRead(dom, The(first_member_current_page), fault = "verify")
            c == [call EXCEPT !.reads = Append(@, rd)]
        IN  IF rd.changed
               THEN /\ fault # "wait"
                    /\ call' = c
                    /\ pc' = "extractnext"
                    /\ clock' = clock + VerifyWait
                    /\ UNCHANGED <<success, new_data, nominal>>
            ELSE IF fault = "wait"
               THEN /\ OnPaginationError(c)
                    /\ clock' = clock + VerifyWait
                    /\ nominal' = FALSE
            ELSE /\ call' = c
                 /\ pc' = "verify2"
                 /\ clock' = clock + VerifyWait + RetryWait
                 /\ UNCHANGED <<success, new_data, nominal>>
    /\ UNCHANGED <<arg, ret, dup_warning, max_pages, save_frequency, page_number, all_data, page_data,
                   first_member_current_page, browser, closes, files, saves,
                   committed, reason, exc, clicks, views>>

\* Mutant of PagVerify2: the answer of the second verification is ignored.
PagVerify2Lenient ==
    /\ pc = "verify2"
    /\ \E dom \in Doms, raises \in BOOLEAN :
        call' = [call EXCEPT !.reads =
                    Append(@, VerifyRead(dom, The(first_member_current_page),
                                         raises))]
    /\ pc' = "extractnext"
    /\ clock' = clock + VerifyWait
    /\ UNCHANGED <<arg, ret, dup_warning, max_pages, save_frequency, page_number, all_data, page_data,
                   success, new_data, first_member_current_page, browser,
                   closes, files, saves, committed, reason, exc, clicks, views,
                   nominal>>

\* The second verify_table_update, after the longer wait.
PagVerify2 ==
    /\ pc = "verify2"
    /\ \E dom \in Doms, raises \in BOOLEAN :
        LET rd == VerifyRead(dom, The(first_member_current_page), raises)
            c == [call EXCEPT !.reads = Append(@, rd)]
        IN  IF rd.changed
               THEN /\ call' = c
                    /\ pc' = "extractnext"
                    /\ UNCHANGED <<success, new_data, nominal>>
               ELSE /\ PagResult(FALSE, None, "verification-failed", c)
                    /\ nominal' = FALSE
    /\ clock' = clock + VerifyWait
    /\ UNCHANGED <<arg, ret, dup_warning, max_pages, save_frequency, page_number, all_data, page_data,
                   first_member_current_page, browser, closes, files, saves,
                   committed, reason, exc, clicks, views>>

\* Mutant of ExtractReturn: the "if new_data" test is missing.
ExtractReturnAlways(data, c) == PagResult(TRUE, Some(data), "extracted", c)

\* if new_data: return True, new_data; else: return False, None
ExtractReturn(data, c) ==
    IF data # <<>>
       THEN PagResult(TRUE, Some(data), "extracted", c)
       ELSE PagResult(FALSE, None, "no-data", c)

\* new_data = extract_table_data(page) and the two returns that follow.
\* raises: extract_table_data lets an exception other than TimeoutError out.
PagExtract ==
    /\ pc = "extractnext"
    /\ \E dom \in Doms, raises \in BOOLEAN :
        IF raises
           THEN /\ OnPaginationError(call)
                /\ nominal' = FALSE
                /\ UNCHANGED <<clock, views>>
           ELSE LET data == ExtractTableData(dom)
                    c == [call EXCEPT !.extracted = Some(data)]
                IN  /\ clock' = clock + ExtractTime(dom)
                    /\ views' = views \cup {1 + clicks}
                    /\ ExtractReturn(data, c)
                    /\ nominal' = (nominal /\ data # <<>>)
    /\ UNCHANGED <<arg, ret, dup_warning, max_pages, save_frequency, page_number, all_data, page_data,
                   first_member_current_page, browser, closes, files, saves,
                   committed, reason, exc, clicks>>

-----------------------------------------------------------------------------
(* main: final persistence, exception handler, finally *)

\* if all_data: final_file = save_to_csv(all_data, output_dir)
FinalSave ==
    /\ pc = "final"
    /\ IF all_data # <<>>
          THEN \E ok \in BOOLEAN :
                 /\ SaveToCsv(all_data, ok, "final")
                 /\ IF ok
                       THEN pc' = "close" /\ UNCHANGED <<exc, nominal>>
                       ELSE /\ pc' = "handler"
                            /\ exc' = "final-save"
                            /\ nominal' = FALSE
          ELSE /\ pc' = "close"
               /\ UNCHANGED <<files, saves, exc, nominal>>
    /\ UNCHANGED <<arg, ret, dup_warning, max_pages, save_frequency, page_number, all_data, page_data,
                   success, new_data, first_member_current_page, browser,
                   closes, clock, committed, reason, call, clicks, views>>

\* Mutant of Handler: the except clause only logs and saves nothing.
HandlerNoSave ==
    /\ pc = "handler"
    /\ pc' = "close"
    /\ UNCHANGED <<arg, ret, dup_warning, max_pages, save_frequency, page_number, all_data, page_data,
                   success, new_data, first_member_current_page, browser,
                   closes, clock, files, saves, committed, reason, exc, call,
                   clicks, views, nominal>>

\* except Exception: if all_data: save_to_csv(all_data, output_dir).
\* A save that raises here leaves main through the finally clause.
Handler ==
    /\ pc = "handler"
    /\ IF all_data # <<>>
          THEN \E ok \in BOOLEAN :
                 /\ SaveToCsv(all_data, ok, "handler")
                 /\ exc' = IF ok THEN exc ELSE "uncaught"
          ELSE UNCHANGED <<files, saves, exc>>
    /\ pc' = "close"
    /\ UNCHANGED <<arg, ret, dup_warning, max_pages, save_frequency, page_number, all_data, page_data,
                   success, new_data, first_member_current_page, browser,
                   closes, clock, committed, reason, call, clicks, views,
                   nominal>>

\* Mutant of Finally: browser.close() at the end of the try block, so that
\* it is skipped when an exception was caught.
FinallyOnSuccessOnly ==
    /\ pc = "close"
    /\ IF browser # "unset" /\ exc = "none"
          THEN browser' = "closed" /\ closes' = closes + 1
          ELSE UNCHANGED <<browser, closes>>
    /\ pc' = "done"
    /\ UNCHANGED <<arg, ret, dup_warning, max_pages, save_frequency, page_number, all_data, page_data,
                   success, new_data, first_member_current_page, clock, files,
                   saves, committed, reason, exc, call, clicks, views, nominal>>

\* finally: if 'browser' in locals(): browser.close()
Finally ==
    /\ pc = "close"
    /\ IF browser # "unset"
          THEN browser' = "closed" /\ closes' = closes + 1
          ELSE UNCHANGED <<browser, closes>>
    /\ pc' = "done"
    /\ UNCHANGED <<arg, ret, dup_warning, max_pages, save_frequency, page_number, all_data, page_data,
                   success, new_data, first_member_current_page, clock, files,
                   saves, committed, reason, exc, call, clicks, views, nominal>>

-----------------------------------------------------------------------------
(* extract_table_data and the member name cleanup, applied on their own *)

\* A row whose header text starts with the placeholder prefix ".,".
RowSentinel == [th |-> Some(<<".", ",", "a">>), tds |-> <<CellX, CellY, CellZ>>]

RowSet == {RowA, RowB, RowShort, RowNoTh, RowBlank, RowSentinel}

NameChars == {" ", ".", ",", "a"}

SeqsUpTo(S, n) == UNION {[1..k -> S] : k \in 0..n}

\* member_name = row.query_selector("th").inner_text().strip(), as
\* extract_table_data computes it for a row whose header text is text.
CleanByExtract(text) ==
    ExtractTableData(
        Some(<<[th |-> Some(text), tds |-> <<CellX, CellY, CellZ>>]>>)
    )[1]["Member Name"]

\* first_member = first_row.query_selector("th").inner_text().strip(), as
\* verify_table_update computes it for a first row whose header text is text.
CleanByVerify(text) ==
    The(ReadFirstMember(
        Some(<<[th |-> Some(text), tds |-> <<CellX, CellY, CellZ>>]>>)))

\* The variables of main, at rest while a function is applied on its own.
MainIdle ==
    /\ max_pages = 0
    /\ save_frequency = 0
    /\ page_number = 1
    /\ all_data = <<>>
    /\ page_data = <<>>
    /\ success = FALSE
    /\ new_data = None
    /\ first_member_current_page = None
    /\ browser = "unset"
    /\ closes = 0
    /\ clock = 0
    /\ files = <<>>
    /\ saves = <<>>
    /\ committed = <<>>
    /\ reason = "none"
    /\ exc = "none"
    /\ call = NoCall
    /\ clicks = 0
    /\ views = {}
    /\ nominal = TRUE
    /\ dup_warning = FALSE

\* extract_table_data(page) on any table of at most MaxRows rows, or none.
InitExtract ==
    /\ MainIdle
    /\ pc = "call"
    /\ arg \in {None} \cup {Some(t) : t \in SeqsUpTo(RowSet, MaxRows)}
    /\ ret = None

ApplyExtract ==
    /\ pc = "call"
    /\ ret' = Some(ExtractTableData(arg))
    /\ pc' = "return"
    /\ UNCHANGED <<arg, dup_warning, max_pages, save_frequency, page_number,
                   all_data, page_data, success, new_data,
                   first_member_current_page, browser, closes, clock, files,
                   saves, committed, reason, exc, call, clicks, views, nominal>>

SpecExtract == InitExtract /\ [][ApplyExtract]_vars

\* The cleanup of a raw member name of at most MaxNameLen characters.
InitClean ==
    /\ MainIdle
    /\ pc = "call"
    /\ arg \in SeqsUpTo(NameChars, MaxNameLen)
    /\ ret = None

ApplyClean ==
    /\ pc = "call"
    /\ ret' = Some([extract |-> CleanByExtract(arg),
                    verify |-> CleanByVerify(arg)])
    /\ pc' = "return"
    /\ UNCHANGED <<arg, dup_warning, max_pages, save_frequency, page_number,
                   all_data, page_data, success, new_data,
                   first_member_current_page, browser, closes, clock, files,
                   saves, committed, reason, exc, call, clicks, views, nominal>>

SpecClean == InitClean /\ [][ApplyClean]_vars

-----------------------------------------------------------------------------
(* The program *)

Next ==
    \/ Setup
    \/ LoopTest
    \/ ExtractPage
    \/ Checkpoint
    \/ PagLocate
    \/ PagVerify1
    \/ PagVerify2
    \/ PagExtract
    \/ Advance
    \/ FinalSave
    \/ Handler
    \/ Finally

Spec == Init /\ [][Next]_vars

-----------------------------------------------------------------------------
(* Properties *)

RECURSIVE Flatten(_)
Flatten(ss) == IF ss = <<>> THEN <<>> ELSE Head(ss) \o Flatten(Tail(ss))

RECURSIVE SumLen(_)
SumLen(ss) == IF ss = <<>> THEN 0 ELSE Len(Head(ss)) + SumLen(Tail(ss))

IsPrefix(s, t) == Len(s) <= Len(t) /\ SubSeq(t, 1, Len(s)) = s

Last(s) == s[Len(s)]

\* Positions of main between the extend of a page and the next loop test.
AfterCommit ==
    {"checkpoint", "paginate", "verify1", "verify2", "extractnext", "returned"}

\* Positions of main after the loop was left.
AfterLoop == {"final", "handler", "close", "done"}

\* C1: all_data is the concatenation, in page order and row order, of the
\* page_data of the pages committed so far; its length is the sum of their
\* record counts; one page is committed per page_number; and every step of the
\* program, failures of handle_pagination and verify_table_update included,
\* leaves the old all_data a prefix of the new one.
C1_AccumulatedIsConcatenation ==
    /\ [](/\ all_data = Flatten(committed)
          /\ Len(all_data) = SumLen(committed)
          /\ Len(committed) \in {page_number - 1, page_number}
          /\ pc \in {"loop", "extract"} => Len(committed) = page_number - 1
          /\ pc \in AfterCommit => Len(committed) = page_number)
    /\ [][IsPrefix(all_data, all_data')]_vars

\* Two pages committed, then a verification failure ended the run.
C1_Witness ==
    /\ pc = "done"
    /\ Len(committed) = 2
    /\ call.outcome = "verification-failed"
    /\ Len(all_data) = Len(committed[1]) + Len(committed[2])

\* C2: a run that ends with a non-empty all_data made, as its last
\* save_to_csv call, a call from the final-save or the except site with the
\* whole of all_data, whatever ended the loop; when that call returned, the
\* file it names holds all_data.
C2_FinalPersist ==
    (pc = "done" /\ all_data # <<>>) =>
        /\ saves # <<>>
        /\ Last(saves).site \in {"final", "handler"}
        /\ Last(saves).data = all_data
        /\ Last(saves).ok => files[Last(saves).filepath] = ToCsv(all_data)

\* An exception in the loop body after a page was appended; the handler saved.
C2_Witness ==
    /\ pc = "done"
    /\ exc = "extract"
    /\ all_data # <<>>
    /\ Last(saves).site = "handler"
    /\ Last(saves).ok

\* The lines of a CSV file that holds exactly the records of data, in order.
HoldsExactly(content, data) ==
    /\ Len(content) = 1 + Len(data)
    /\ content[1] = Header
    /\ \A i \in 1..Len(data) :
          content[i + 1] = <<data[i]["Member Name"], data[i]["Designations"],
                             data[i]["Employer"], data[i]["Employer City"]>>

\* C3: every save_to_csv call of main is given all_data as it stands at the
\* call; a call that returns leaves in its file exactly the committed records,
\* each once and in order; a call that raises leaves the files alone; and the
\* last call of a run was given the final all_data.
C3_PersistExact ==
    /\ [][saves' # saves =>
            /\ Len(saves') = Len(saves) + 1
            /\ SubSeq(saves', 1, Len(saves)) = saves
            /\ all_data' = all_data
            /\ Last(saves').data = all_data
            /\ Last(saves').ok =>
                  /\ HoldsExactly(files'[Last(saves').filepath], all_data)
                  /\ Len(files'[Last(saves').filepath]) = 1 + SumLen(committed)
            /\ ~Last(saves').ok => files' = files]_vars
    /\ [](pc = "done" /\ saves # <<>> => Last(saves).data = all_data)

\* A checkpoint write and the final write went to one file, which holds the
\* final all_data.
C3_Witness ==
    /\ pc = "done"
    /\ Len(saves) = 2
    /\ saves[1].ok /\ saves[2].ok
    /\ saves[1].site = "checkpoint"
    /\ saves[1].filepath = saves[2].filepath
    /\ HoldsExactly(files[saves[2].filepath], all_data)

\* C4: all save_to_csv calls of a run that write, write one file, and the
\* output directory never holds more than one file of the run.
C4_OneFilePerRun ==
    /\ \A i, j \in DOMAIN saves :
          (saves[i].ok /\ saves[j].ok) => saves[i].filepath = saves[j].filepath
    /\ Cardinality(DOMAIN files) <= 1

\* C5: a verify_table_update call that read a first member name equal to the
\* previous_first_member it was given did not answer True.
C5_NoChangeOnEqualFingerprint ==
    \A i \in DOMAIN call.reads :
        call.reads[i].first_member = Some(call.reads[i].previous)
            => ~call.reads[i].changed

\* The detector read a row whose raw header text differs from the previous
\* name only by whitespace, and answered False.
C5_Witness ==
    \E i \in DOMAIN call.reads :
        /\ call.reads[i].first_member = Some(call.reads[i].previous)
        /\ call.reads[i].previous = <<"a">>
        /\ ~call.reads[i].changed

\* The run met, at every step so far, an enabled Next control, a click whose
\* change one of the two verifications confirmed, at least one record in every
\* extraction, and no exception.
NominalRun == nominal

\* The last save_to_csv call is the final one, returned, and wrote all_data.
FinalPersisted ==
    /\ saves # <<>>
    /\ Last(saves).site = "final"
    /\ Last(saves).ok
    /\ HoldsExactly(files[Last(saves).filepath], all_data)

\* C6 as stated: with max_pages = M >= 1, a nominal run commits pages 1..M,
\* persists, ends on the page cap, and ran the extractor on no view beyond M.
C6_NoPageBeyondCapExtracted ==
    (pc = "done" /\ NominalRun /\ max_pages >= 1) =>
        /\ Len(committed) = max_pages
        /\ reason = "page-cap"
        /\ FinalPersisted
        /\ views \subseteq 1..max_pages

\* C6, amended: with max_pages = M >= 1, a nominal run commits pages 1..M and
\* no more, persists, and ends on the page cap with page_number = M + 1; the
\* Next control was clicked M times, and the extractor ran on the views
\* 1..M+1: handle_pagination extracts view M + 1, whose records are dropped.
C6_CommitsUpToCap ==
    (pc = "done" /\ NominalRun /\ max_pages >= 1) =>
        /\ Len(committed) = max_pages
        /\ page_number = max_pages + 1
        /\ reason = "page-cap"
        /\ FinalPersisted
        /\ clicks = max_pages
        /\ views = 1..(max_pages + 1)
        /\ success /\ new_data # None

\* A nominal run with max_pages = 1 ended: one page committed, two extracted.
C6_Witness ==
    /\ pc = "done"
    /\ NominalRun
    /\ max_pages = 1
    /\ Len(committed) = 1
    /\ 2 \in views

\* Both verifications of the current handle_pagination call read the first
\* member name of the current page.
BothReadsUnchanged ==
    /\ Len(call.reads) = 2
    /\ page_data # <<>>
    /\ \A i \in 1..2 :
          /\ call.reads[i].previous = page_data[1]["Member Name"]
          /\ call.reads[i].first_member = Some(call.reads[i].previous)

\* C7: when both verifications read the current page's first member name,
\* handle_pagination returned (False, None) as a verification failure, the
\* extractor did not run on the view after the click, nothing was appended
\* after the current page, and the loop was left.
C7_VerificationFailureStops ==
    BothReadsUnchanged =>
        /\ pc \in {"returned"} \cup AfterLoop
        /\ ~success
        /\ new_data = None
        /\ call.outcome = "verification-failed"
        /\ call.extracted = None
        /\ (1 + clicks) \notin views
        /\ Len(committed) = page_number
        /\ all_data = Flatten(committed)
        /\ pc # "returned" => reason = "pagination"

\* A run that ended after both verifications read the unchanged fingerprint.
C7_Witness ==
    /\ BothReadsUnchanged
    /\ call.clicked
    /\ pc = "done"
    /\ Last(saves).site = "final"

\* The Next control read by the current call is present and disabled: by
\* the token "disabled" in its class, or natively.
DisabledControl ==
    /\ call.button # None
    /\ \/ The(call.button).class = Some(ClassDisabledToken)
       \/ The(call.button).disabled

\* C8: when the Next control is present and disabled, handle_pagination
\* returned (False, None) without clicking, the loop was left, and the run
\* made a final save_to_csv call with the whole of all_data.
C8_DisabledControlStops ==
    DisabledControl =>
        /\ ~call.clicked
        /\ ~success
        /\ new_data = None
        /\ call.outcome \in {"disabled", "error"}
        /\ pc \in {"returned"} \cup AfterLoop
        /\ Len(committed) = page_number
        /\ pc # "returned" => reason = "pagination"
        /\ pc \in {"handler", "close", "done"} =>
              \E i \in DOMAIN saves :
                  saves[i].site = "final" /\ saves[i].data = all_data
        /\ pc = "done" =>
              /\ Last(saves).site \in {"final", "handler"}
              /\ Last(saves).data = all_data

\* A run ended by a natively disabled control; its file holds all_data.
C8_Witness ==
    /\ pc = "done"
    /\ call.button = Some([class |-> Some(ClassNeutral), disabled |-> TRUE])
    /\ call.outcome = "disabled"
    /\ FinalPersisted

\* One of the verifications of the current call confirmed a change.
SomeReadChanged == \E i \in DOMAIN call.reads : call.reads[i].changed

\* The records committed before the current page.
CountBeforePage == SumLen(SubSeq(committed, 1, page_number - 1))

\* C9 as stated: after a confirmed change handle_pagination ran the extractor
\* and returned (True, its records), and the next page grew all_data by the
\* count of those records.
C9_AdvanceGrowsByReturned ==
    /\ (pc = "returned" /\ SomeReadChanged) =>
          /\ call.extracted # None
          /\ success
          /\ new_data = call.extracted
    /\ (pc = "checkpoint" /\ page_number > 1 /\ SomeReadChanged) =>
          Len(all_data) = CountBeforePage + Len(The(new_data))

\* C9, amended: after a confirmed change handle_pagination runs the
\* extractor; it returns (True, the records) exactly when the extractor
\* returned at least one record, and (False, None) when it returned none or
\* raised. On True the loop advances by one page; the returned records are
\* dropped, and all_data grows, only if the new page_number is within
\* max_pages, by the count of the records main's own extraction finds.
C9_AdvanceGrowsByReextracted ==
    /\ (pc = "returned" /\ SomeReadChanged) =>
          /\ call.clicked
          /\ success <=> (call.extracted # None /\ call.extracted # Some(<<>>))
          /\ success => (new_data = call.extracted /\ call.outcome = "extracted")
          /\ ~success => (new_data = None /\ call.outcome \in {"no-data", "error"})
    /\ (pc \in {"loop", "extract"} /\ page_number > 1 /\ SomeReadChanged) =>
          /\ success
          /\ call.outcome = "extracted"
          /\ Len(committed) = page_number - 1
    /\ (pc = "checkpoint" /\ page_number > 1 /\ SomeReadChanged) =>
          /\ page_number <= max_pages
          /\ Len(all_data) = CountBeforePage + Len(page_data)
          /\ page_data = committed[page_number]

\* Page 2 was committed after a change confirmed in the second pass, with a
\* record count other than that of the records handle_pagination returned.
C9_Witness ==
    /\ pc = "checkpoint"
    /\ page_number = 2
    /\ Len(call.reads) = 2
    /\ call.reads[2].changed
    /\ Len(page_data) # Len(The(new_data))
    /\ Len(all_data) = Len(committed[1]) + Len(page_data)

\* C10: an exception inside handle_pagination became the result
\* (False, None): main's except clause was not entered by it, nothing was
\* appended, and the run went on to the final save_to_csv call.
C10_PaginationErrorContained ==
    call.outcome = "error" =>
        /\ pc \in {"returned"} \cup AfterLoop
        /\ ~success
        /\ new_data = None
        /\ Len(committed) = page_number
        /\ all_data = Flatten(committed)
        /\ exc \in {"none", "final-save", "uncaught"}
        /\ pc = "handler" => exc = "final-save"
        /\ pc \in {"handler", "close", "done"} =>
              \E i \in DOMAIN saves :
                  saves[i].site = "final" /\ saves[i].data = all_data

\* The click raised inside handle_pagination on page 2; the run ended with
\* both pages written by the final save.
C10_Witness ==
    /\ pc = "done"
    /\ call.outcome = "error"
    /\ call.button = Some([class |-> Some(ClassNeutral), disabled |-> FALSE])
    /\ ~call.clicked
    /\ Len(committed) = 2
    /\ FinalPersisted

\* The rows of a table read, None being no table.
RowsOf(dom) == IF dom = None THEN <<>> ELSE The(dom)

\* A record with its four fields, none missing.
IsWholeRecord(r) ==
    DOMAIN r = {"Member Name", "Designations", "Employer", "Employer City"}

\* C11 as stated: extract_table_data returns as many records as the table
\* has rows with at least 3 data cells.
C11_CountIsRowsWithThreeCells ==
    ret # None =>
        Len(The(ret)) =
            Cardinality({i \in DOMAIN RowsOf(arg) : Len(RowsOf(arg)[i].tds) >= 3})

\* C11, amended: extract_table_data returns as many records as the table has
\* rows with a header cell and at least 3 data cells; every record is whole;
\* a table of rows that all have fewer than 3 data cells, or no header cell,
\* and a missing table, give no record.
C11_CountIsQualifyingRows ==
    ret # None =>
        /\ Len(The(ret)) =
              Cardinality({i \in DOMAIN RowsOf(arg) :
                              /\ RowsOf(arg)[i].th # None
                              /\ Len(RowsOf(arg)[i].tds) >= 3})
        /\ \A i \in DOMAIN The(ret) : IsWholeRecord(The(ret)[i])
        /\ (\A i \in DOMAIN RowsOf(arg) : Len(RowsOf(arg)[i].tds) < 3)
              => The(ret) = <<>>

\* Three rows, of which one is short and one has no header cell: one record.
C11_Witness ==
    /\ ret # None
    /\ arg = Some(<<RowShort, RowNoTh, RowB>>)
    /\ Len(The(ret)) = 1
    /\ The(ret)[1]["Member Name"] = <<"b">>

\* A text that starts with the placeholder prefix ".,".
HasSentinel(text) == Len(text) >= 2 /\ text[1] = "." /\ text[2] = ","

\* C12: no record returned by extract_table_data has a member name that
\* starts with ".,".
C12_SentinelStripped ==
    ret # None =>
        \A i \in DOMAIN The(ret) : ~HasSentinel(The(ret)[i]["Member Name"])

\* C13: the cleanup extract_table_data and verify_table_update apply to a
\* raw member name gives a name that either of them leaves unchanged.
C13_CleanupIdempotent ==
    ret # None =>
        /\ CleanByExtract(The(ret).extract) = The(ret).extract
        /\ CleanByVerify(The(ret).verify) = The(ret).verify
        /\ CleanByVerify(The(ret).extract) = The(ret).extract
        /\ CleanByExtract(The(ret).verify) = The(ret).verify

\* A raw name with whitespace at both ends was cleaned.
C13_Witness ==
    /\ ret # None
    /\ arg = <<" ", " ", "a">>
    /\ The(ret).extract = <<"a">>
    /\ The(ret).verify = <<"a">>

C15_ChangedOnlyIfNonEmpty ==
    \A i \in DOMAIN call.reads :
        call.reads[i].changed =>
            /\ call.reads[i].first_member # None
            /\ The(call.reads[i].first_member) # <<>>

\* C16 as stated: a verification read that finds no first row answers False;
\* the caller does not declare failure right after such a read; and a new
\* fingerprint read by the retry gives a successful advance.
C16_AbsentRowRetried ==
    /\ \A i \in DOMAIN call.reads :
          call.reads[i].row = "absent" => ~call.reads[i].changed
    /\ call.outcome = "verification-failed" =>
          Last(call.reads).row # "absent"
    /\ (/\ pc = "returned"
        /\ Len(call.reads) = 2
        /\ call.reads[1].row = "absent"
        /\ call.reads[2].changed) => success

\* C16, amended: a verification read that finds no first row answers False
\* and raises nothing. After the first read the caller waits and verifies
\* once more instead of failing (unless that wait raises); after the second
\* read it declares the verification failed. A new fingerprint read by the
\* retry leads to the extraction of the new page, and to a successful advance
\* exactly when that extraction returns at least one record.
C16_AbsentRowRetriedOnce ==
    /\ \A i \in DOMAIN call.reads :
          call.reads[i].row = "absent" =>
              (~call.reads[i].changed /\ call.reads[i].first_member = None)
    /\ (Len(call.reads) = 1 /\ call.reads[1].row = "absent") =>
          \/ pc = "verify2"
          \/ call.outcome = "error"
    /\ (Len(call.reads) = 2 /\ call.reads[2].row = "absent") =>
          (call.outcome = "verification-failed" /\ ~success)
    /\ call.outcome = "verification-failed" => Len(call.reads) = 2
    /\ (/\ pc = "returned"
        /\ Len(call.reads) = 2
        /\ call.reads[1].row = "absent"
        /\ call.reads[2].changed) =>
          /\ call.outcome \in {"extracted", "no-data", "error"}
          /\ success <=> (call.extracted # None /\ call.extracted # Some(<<>>))

\* No first row at the first read, a new fingerprint at the retry, and the
\* call returned the new page.
C16_Witness ==
    /\ pc = "returned"
    /\ Len(call.reads) = 2
    /\ call.reads[1].row = "absent"
    /\ call.reads[2].changed
    /\ success
    /\ new_data # None

\* Positions inside a handle_pagination call.
InPagination == {"paginate", "verify1", "verify2", "extractnext"}

\* The last checkpoint boundary at or before the current page.
LastBoundary == save_frequency * (page_number \div save_frequency)

\* The records of pages 1..m.
UpToPage(m) == Flatten(SubSeq(committed, 1, m))

\* C17: with save_frequency = N >= 1, while handle_pagination runs from page
\* k, a checkpoint save_to_csv call that returned was given the records of
\* pages 1..N*floor(k/N), a file holds them, and fewer than N pages were
\* committed since.
C17_CheckpointCoversBoundary ==
    (pc \in InPagination /\ save_frequency >= 1) =>
        /\ Len(committed) = page_number
        /\ page_number - LastBoundary < save_frequency
        /\ LastBoundary >= 1 =>
              /\ \E i \in DOMAIN saves :
                    /\ saves[i].site = "checkpoint"
                    /\ saves[i].ok
                    /\ saves[i].data = UpToPage(LastBoundary)
              /\ \E path \in DOMAIN files :
                    IsPrefix(ToCsv(UpToPage(LastBoundary)), files[path])

\* handle_pagination is invoked from page 2 with a checkpoint every 2 pages.
C17_Witness ==
    /\ pc = "paginate"
    /\ save_frequency = 2
    /\ page_number = 2
    /\ Len(saves) = 1
    /\ saves[1].data = all_data

\* C18: the duplicate check changes nothing but the log. Whether or not it
\* fires, an extraction that returns records appends exactly them, commits
\* the page and goes on to the checkpoint test, with page_number, the saves,
\* the files and the loop's exit reason untouched; the warning is always the
\* value of the test on the last committed page, which is in all_data like
\* any other page.
C18_DuplicateCheckDiagnosticOnly ==
    /\ [][(pc = "extract" /\ pc' # "handler" /\ page_data' # <<>>) =>
            /\ dup_warning' = DuplicateDetected(all_data, page_data')
            /\ all_data' = all_data \o page_data'
            /\ committed' = Append(committed, page_data')
            /\ pc' = "checkpoint"
            /\ UNCHANGED <<page_number, saves, files, reason, exc, success,
                           new_data, clicks, browser, closes, call>>]_vars
    /\ [][pc # "extract" => dup_warning' = dup_warning]_vars
    /\ [](/\ all_data = Flatten(committed)
          /\ committed = <<>> => ~dup_warning
          /\ committed # <<>> =>
                /\ Last(committed) # <<>>
                /\ dup_warning =
                      DuplicateDetected(UpToPage(Len(committed) - 1),
                                        Last(committed)))

\* The check fired on page 2, which repeats page 1; the run went on to the
\* page cap and wrote both pages.
C18_Witness ==
    /\ dup_warning
    /\ pc = "done"
    /\ reason = "page-cap"
    /\ Len(committed) = 2
    /\ committed[1] = committed[2]
    /\ FinalPersisted

\* C19: the browser, once launched, is closed exactly once on every way out
\* of main, by the finally clause, and no save_to_csv call follows the close.
C19_BrowserClosedOnceAtEnd ==
    /\ [](/\ closes <= 1
          /\ browser = "closed" <=> closes = 1
          /\ browser = "closed" => pc = "done"
          /\ (pc = "done" /\ browser # "unset") =>
                (browser = "closed" /\ closes = 1)
          /\ (pc \notin {"start", "handler", "close", "done"}) => browser = "open")
    /\ [][closes' # closes => (pc = "close" /\ pc' = "done")]_vars
    /\ [][browser = "closed" => saves' = saves]_vars

\* The save in the except clause raised; the browser was still closed, once.
C19_Witness ==
    /\ pc = "done"
    /\ exc = "uncaught"
    /\ ~Last(saves).ok
    /\ browser = "closed"
    /\ closes = 1

\* Steps main has left at its position within one iteration.
PcRank ==
    CASE pc = "done" -> 0
      [] pc = "close" -> 1
      [] pc = "handler" -> 2
      [] pc = "final" -> 3
      [] pc = "returned" -> 4
      [] pc = "extractnext" -> 5
      [] pc = "verify2" -> 6
      [] pc = "verify1" -> 7
      [] pc = "paginate" -> 8
      [] pc = "checkpoint" -> 9
      [] pc = "extract" -> 10
      [] pc = "loop" -> 11
      [] pc = "start" -> 12

\* A bound on the steps main has left: 13 per page still allowed.
Rank == (max_pages + 1 - page_number) * 13 + PcRank

\* C20: page_number starts at 1, changes only by +1 after a successful
\* handle_pagination, stays within 1..max_pages + 1; there are at most
\* max_pages committed pages and clicks; main is never stuck before its end;
\* and every step lowers Rank, which is never negative, so the loop ends.
C20_LoopTerminates ==
    /\ [](/\ page_number >= 1
          /\ page_number <= max_pages + 1
          /\ Len(committed) <= max_pages
          /\ clicks <= max_pages
          /\ pc = "start" => page_number = 1
          /\ pc \in AfterCommit => page_number <= max_pages
          /\ Rank >= 0
          /\ pc = "done" \/ ENABLED Next)
    /\ [][page_number' # page_number =>
            /\ page_number' = page_number + 1
            /\ pc = "returned"
            /\ success]_vars
    /\ [][Rank' < Rank]_vars

\* A run of max_pages = 2 pages that ended on the page cap after 2 clicks.
C20_Witness ==
    /\ pc = "done"
    /\ max_pages = 2
    /\ page_number = 3
    /\ clicks = 2
    /\ reason = "page-cap"

====
